---- MODULE Spec2Model ----
(***************************************************************************)
(* Block generation of the parcel layout analysis: BlockGenerator.generate *)
(* (block_generator.py) groups the Lots of a parcel list into clusters of  *)
(* intersecting lots and builds one Block (units.py) per cluster.          *)
(*                                                                         *)
(* Geometry.  A curve is a polyline given by its points.  The parcels are  *)
(* drawn from a fixed cadastral sheet of axis-parallel rectangles (and two *)
(* unusable curves), so the exact predicates of the polygon library        *)
(* (intersects) are computed on bounding boxes, which is exact for these   *)
(* shapes.  Lengths are integers; the unit is half the weld tolerance.     *)
(* What the Rhino/Clipper kernel returns for a boolean union and for an    *)
(* offset is not decided by the program: the actions draw it from the      *)
(* outcome sets KernelContour, KernelUnion and KernelHoles.                *)
(***************************************************************************)
EXTENDS Integers, Sequences, FiniteSets, TLC

\* Longest parcel list handed to generate.
MaxParcels == 3

\* constants.RAW_TOL, the weld tolerance of Block._set_block_region, in model
\* length units (a positive distance).
RAW_TOL == 2

----------------------------------------------------------------------------
\* Generic helpers

Range(s) == { s[n] : n \in 1..Len(s) }

SetMin(S) == CHOOSE x \in S : \A y \in S : x <= y
SetMax(S) == CHOOSE x \in S : \A y \in S : y <= x

\* F applied to the value of v: v is computed once, as a statement that
\* assigns a local variable computes its right-hand side once.
Bind(v, F(_)) == CHOOSE r \in { F(x) : x \in {v} } : TRUE

\* The sequences without repetition over S of length exactly n.
RECURSIVE InjSeqsOfLen(_, _)
InjSeqsOfLen(S, n) ==
    IF n = 0 THEN { <<>> }
    ELSE UNION { { Append(s, x) : x \in S \ Range(s) } : s \in InjSeqsOfLen(S, n - 1) }

InjSeqs(S, n) == UNION { InjSeqsOfLen(S, m) : m \in 0..n }

\* The orders in which the elements of a set may be iterated.
Orderings(S) == InjSeqsOfLen(S, Cardinality(S))

----------------------------------------------------------------------------
\* Curves (Rhino.Geometry.Curve as the program sees it)

\* Python None where a curve is expected.
NoCurve == [null |-> TRUE, IsValid |-> FALSE, pts |-> <<>>]

Polyline(points) == [null |-> FALSE, IsValid |-> TRUE, pts |-> points]

\* The closed rectangle [x1,x2] x [y1,y2] as a closed polyline.
RectCurve(x1, x2, y1, y2) ==
    Polyline(<< <<x1, y1>>, <<x2, y1>>, <<x2, y2>>, <<x1, y2>>, <<x1, y1>> >>)

\* Python truth value of a curve reference: None is false, an object is true.
Truthy(curve) == ~curve.null

BBox(points) ==
    [x1 |-> SetMin({ p[1] : p \in Range(points) }),
     x2 |-> SetMax({ p[1] : p \in Range(points) }),
     y1 |-> SetMin({ p[2] : p \in Range(points) }),
     y2 |-> SetMax({ p[2] : p \in Range(points) })]

\* Rhino's Curve.IsClosed of a polyline: it ends where it starts.
IsClosed(curve) ==
    Len(curve.pts) >= 2 /\ curve.pts[1] = curve.pts[Len(curve.pts)]

\* Curve.SpanCount of a polyline: one span per segment.
SpanCount(curve) == IF Len(curve.pts) = 0 THEN 0 ELSE Len(curve.pts) - 1

\* utils.get_vertices: the start point of every span, and the end point of
\* an open curve.
get_vertices(curve) ==
    IF ~Truthy(curve) THEN <<>>
    ELSE LET vertices == [n \in 1..SpanCount(curve) |-> curve.pts[n]]
         IN IF ~IsClosed(curve)
            THEN Append(vertices, curve.pts[Len(curve.pts)])
            ELSE vertices

----------------------------------------------------------------------------
\* Polygons (shapely.geometry.Polygon)

\* The value None of _rhino_curve_to_shapely_polygon; no point list of a
\* built Polygon is empty.
NoPolygon == [shell |-> <<>>, holes |-> <<>>]

RECURSIVE Dedup(_, _)
\* The points of verts in order, each kept at its first occurrence only
\* (the `seen` loop).  The key rounds a coordinate to 9 decimals, which
\* leaves the integer coordinates of the sheet as they are.
Dedup(verts, seen) ==
    IF verts = <<>> THEN <<>>
    ELSE IF Head(verts) \in seen THEN Dedup(Tail(verts), seen)
    ELSE <<Head(verts)>> \o Dedup(Tail(verts), seen \cup {Head(verts)})

\* A ring is closed by repeating its first point when it has three points
\* or more and is not closed yet.
CloseRing(ring) ==
    IF Len(ring) >= 3 /\ ring[1] # ring[Len(ring)] THEN Append(ring, ring[1]) ELSE ring

RECURSIVE HoleRings(_)
\* holes_coords: the closed rings of the usable hole curves.
HoleRings(hole_curves) ==
    IF hole_curves = <<>> THEN <<>>
    ELSE LET h == Head(hole_curves)
             rest == HoleRings(Tail(hole_curves))
         IN IF ~Truthy(h) \/ ~h.IsValid THEN rest
            ELSE LET h_verts == get_vertices(h)
                     h_pts == CloseRing(Dedup(h_verts, {}))
                 IN IF h_verts = <<>> THEN rest
                    ELSE IF Len(h_pts) >= 4 THEN <<h_pts>> \o rest
                    ELSE rest

\* BlockGenerator._rhino_curve_to_shapely_polygon
RhinoCurveToShapelyPolygon(region_curve, hole_curves) ==
    IF ~Truthy(region_curve) \/ ~region_curve.IsValid THEN NoPolygon
    ELSE LET verts == get_vertices(region_curve)
             shell_pts == CloseRing(Dedup(verts, {}))
         IN IF verts = <<>> THEN NoPolygon
            ELSE IF Len(shell_pts) < 4 THEN NoPolygon
            ELSE [shell |-> shell_pts, holes |-> HoleRings(hole_curves)]

\* `if polygon:` a shapely geometry is true when it is not empty.
PolygonTruthy(polygon) == polygon # NoPolygon

\* Two closed boxes share a point.
BoxesMeet(a, b) == a.x1 <= b.x2 /\ b.x1 <= a.x2 /\ a.y1 <= b.y2 /\ b.y1 <= a.y2

\* Box a lies in the open interior of box b.
BoxStrictlyInside(a, b) == b.x1 < a.x1 /\ a.x2 < b.x2 /\ b.y1 < a.y1 /\ a.y2 < b.y2

\* Polygon p lies in the interior of one of the holes of q.
InAHole(p, q) ==
    \E n \in 1..Len(q.holes) : BoxStrictlyInside(BBox(p.shell), BBox(q.holes[n]))

\* shapely's `intersects`: the two polygons share at least one point,
\* boundary included, with no tolerance.
Intersects(p, q) ==
    /\ BoxesMeet(BBox(p.shell), BBox(q.shell))
    /\ ~InAHole(p, q)
    /\ ~InAHole(q, p)

----------------------------------------------------------------------------
\* Results of calls that may raise: err is "" when the call returned val.

Ok(v) == [err |-> "", val |-> v]
Raise(e) == [err |-> e, val |-> <<>>]

\* A Python argument that is either one curve or a list of curves
\* (Union[geo.Curve, List[geo.Curve]]).
PyCurve(c) == [single |-> TRUE, items |-> <<c>>]
PyList(s) == [single |-> FALSE, items |-> s]

----------------------------------------------------------------------------
\* Region predicates and the geometry kernel (utils.py over Rhino/Clipper)

CurveBox(curve) == BBox(curve.pts)

BoxCurve(b) == RectCurve(b.x1, b.x2, b.y1, b.y2)

\* The curve moved outward by d on every side (mitred offset of a box).
Grow(curve, d) ==
    LET b == CurveBox(curve) IN RectCurve(b.x1 - d, b.x2 + d, b.y1 - d, b.y2 + d)

Shrink(curve, d) == Grow(curve, 0 - d)

\* The box around all the curves of a non-empty list.
Hull(curves) ==
    RectCurve(SetMin({ CurveBox(curves[n]).x1 : n \in 1..Len(curves) }),
              SetMax({ CurveBox(curves[n]).x2 : n \in 1..Len(curves) }),
              SetMin({ CurveBox(curves[n]).y1 : n \in 1..Len(curves) }),
              SetMax({ CurveBox(curves[n]).y2 : n \in 1..Len(curves) }))

\* Mutant of is_region_inside: any relation but Disjoint counts, as in
\* has_region_intersection.
is_region_inside_overlap(inner_region, outer_region) ==
    BoxesMeet(CurveBox(inner_region), CurveBox(outer_region))

\* utils.is_region_inside: PlanarClosedCurveRelationship is AInsideB, which
\* excludes curves that cross or touch and curves that are apart.
is_region_inside(inner_region, outer_region) ==
    BoxStrictlyInside(CurveBox(inner_region), CurveBox(outer_region))

\* A closed curve around a real area.
HasArea(curve) ==
    /\ Truthy(curve) /\ curve.IsValid /\ Len(curve.pts) >= 2
    /\ CurveBox(curve).x1 < CurveBox(curve).x2
    /\ CurveBox(curve).y1 < CurveBox(curve).y2

\* What PolylineOffset may report as `contour` for one curve: the grown
\* curve; for a curve without area the kernel may also report nothing.
ContourKinds == {"grown", "nothing"}

KernelContour(curve, dist, kind) ==
    IF kind = "nothing" /\ ~HasArea(curve) THEN <<>> ELSE <<Grow(curve, dist)>>

\* utils.offset_region_outward
offset_region_outward(region, dist, kind) ==
    IF dist = 0 THEN Ok(region)
    ELSE LET contour == KernelContour(region, dist, kind)
         IN IF contour = <<>> THEN Raise("IndexError") ELSE Ok(contour[1])

RECURSIVE offset_regions_outward(_, _, _)
\* utils.offset_regions_outward: the list of the single offsets; the first
\* one that raises ends the call.
offset_regions_outward(regions, dist, kind) ==
    IF regions = <<>> THEN Ok(<<>>)
    ELSE Bind(offset_region_outward(Head(regions), dist, kind), LAMBDA first :
           IF first.err # "" THEN first
           ELSE Bind(offset_regions_outward(Tail(regions), dist, kind), LAMBDA rest :
                  IF rest.err # "" THEN rest
                  ELSE Ok(<<first.val>> \o rest.val)))

\* What Curve.CreateBooleanUnion may return for two or more curves: one
\* region; an outer region with a void in it, in either order; a void, an
\* island in the void and the outer region; an outer region and a region
\* touching it from inside; two regions side by side; nothing.
UnionKinds == {"one", "outer_void", "void_outer", "void_island_outer",
               "outer_touching", "apart", "nothing"}

KernelUnion(regions, kind) ==
    LET outer == Hull(regions)
        b == CurveBox(outer)
        void == Shrink(outer, 3)
        island == Shrink(outer, 4)
        touching == RectCurve(b.x1, b.x2 - 1, b.y1, b.y2 - 1)
        left == RectCurve(b.x1, b.x1 + 1, b.y1, b.y2)
        right == RectCurve(b.x1 + 2, b.x2, b.y1, b.y2)
    IN CASE kind = "one" -> <<outer>>
         [] kind = "outer_void" -> <<outer, void>>
         [] kind = "void_outer" -> <<void, outer>>
         [] kind = "void_island_outer" -> <<void, island, outer>>
         [] kind = "outer_touching" -> <<outer, touching>>
         [] kind = "apart" -> <<left, right>>
         [] OTHER -> <<>>

\* What the Clipper union of the fallback may return at each step: the
\* merged region, or nothing from some step on.
ClipperKinds == {"merged", "nothing_at_1", "nothing_at_2"}

KernelClipper(crvs0, crvs1, step, kind) ==
    IF (kind = "nothing_at_1" /\ step >= 1) \/ (kind = "nothing_at_2" /\ step >= 2)
    THEN <<>>
    ELSE <<Hull(crvs0 \o crvs1)>>

\* RegionBool._polyline_boolean under convert_io_to_list, as called by
\* polyline_boolean_union.
polyline_boolean_union(crvs0, crvs1, step, kind) ==
    IF crvs0 = <<>> \/ crvs1 = <<>> THEN Raise("ValueError")
    ELSE Ok(KernelClipper(crvs0, crvs1, step, kind))

RECURSIVE ClipperFold(_, _, _, _)
\* The loop `for region in regions[1:]` of get_union_regions.
ClipperFold(union_result, regions, step, kind) ==
    IF regions = <<>> THEN Ok(union_result)
    ELSE Bind(polyline_boolean_union(union_result, <<Head(regions)>>, step, kind),
              LAMBDA next :
                IF next.err # "" THEN next
                ELSE ClipperFold(next.val, Tail(regions), step + 1, kind))

\* utils.get_union_regions
get_union_regions(regions, kind, clipper) ==
    IF regions = <<>> THEN Ok(<<>>)
    ELSE IF Len(regions) = 1 THEN Ok(regions)
    ELSE Bind(KernelUnion(regions, kind), LAMBDA union_result :
           IF union_result # <<>> THEN Ok(union_result)
           ELSE ClipperFold(<<regions[1]>>, Tail(regions), 1, clipper))

\* What PolylineOffset may report as `holes` for one curve: the shrunk
\* curve; nothing; two pieces of it; the shrunk curve and a curve that is
\* not inside the input, in either order.
HolesKinds == {"shrunk", "nothing", "pieces", "shrunk_stray", "stray_shrunk"}

KernelHoles(curve, dist, kind) ==
    LET shrunk == Shrink(curve, dist)
        b == CurveBox(shrunk)
        stray == Grow(curve, dist)
        piece1 == RectCurve(b.x1, b.x1 + 1, b.y1, b.y2)
        piece2 == RectCurve(b.x1 + 2, b.x2, b.y1, b.y2)
    IN CASE kind = "shrunk" -> <<shrunk>>
         [] kind = "pieces" -> <<piece1, piece2>>
         [] kind = "shrunk_stray" -> <<shrunk, stray>>
         [] kind = "stray_shrunk" -> <<stray, shrunk>>
         [] OTHER -> <<>>

\* utils.offset_regions_inward.  The value is what the caller receives: a
\* list, or the argument itself when dist is 0.
offset_regions_inward(regions, dist, kind) ==
    IF dist = 0 THEN Ok(regions)
    ELSE IF regions.items = <<>> THEN Raise("ValueError")
    ELSE LET inside(crv) == \E n \in 1..Len(regions.items) :
                                is_region_inside(crv, regions.items[n])
         IN Bind(KernelHoles(Hull(regions.items), dist, kind), LAMBDA result :
              IF Len(result) < 2 THEN Ok(PyList(result))
              ELSE Ok(PyList(SelectSeq(result, inside))))

----------------------------------------------------------------------------
\* Parcels (units.py) and the cadastral sheet they are read from

\* The class ShapefileManager._create_parcel_from_shape gives a parcel: a
\* Road when the land category is the road category ("doro") or empty.
ParcelClass(jimok) == IF jimok = "doro" \/ jimok = "" THEN "Road" ELSE "Lot"

\* Parcel.__init__ and Lot.__init__: the fields of a parcel object.  The two
\* flags are attributes of a Lot only; they are carried as FALSE on a Road
\* to keep one record shape.
NewParcel(curve_crv, pnu, jimok, hole_regions) ==
    [cls |-> ParcelClass(jimok),
     region |-> curve_crv,
     hole_regions |-> hole_regions,
     pnu |-> pnu,
     jimok |-> jimok,
     record |-> <<pnu, jimok>>,
     is_flag_lot |-> FALSE,
     has_road_access |-> FALSE]

\* The sheet, by pnu.  Lots 1, 2, 3 form a row in which neighbours share an
\* edge; 4 is a road between lot 3 and lot 5; lot 6 lies 1 unit (less than
\* RAW_TOL) east of lot 5; lot 7 has an invalid curve; the curve of lot 8
\* is closed with two spans over two points (a segment run forth and back,
\* or two arcs: get_vertices reads the span ends only); lot 9 has a
\* courtyard and lot 10 stands inside the courtyard without touching lot 9.
Pnus == 1..10

Sheet(pnu) ==
    CASE pnu = 1 -> NewParcel(RectCurve(0, 10, 0, 10), 1, "dae", <<>>)
      [] pnu = 2 -> NewParcel(RectCurve(10, 20, 0, 10), 2, "dae", <<>>)
      [] pnu = 3 -> NewParcel(RectCurve(20, 30, 0, 10), 3, "jeon", <<>>)
      [] pnu = 4 -> NewParcel(RectCurve(30, 34, 0, 10), 4, "doro", <<>>)
      [] pnu = 5 -> NewParcel(RectCurve(34, 44, 0, 10), 5, "dae", <<>>)
      [] pnu = 6 -> NewParcel(RectCurve(45, 55, 0, 10), 6, "dae", <<>>)
      [] pnu = 7 -> NewParcel([RectCurve(60, 70, 0, 10) EXCEPT !.IsValid = FALSE],
                              7, "dae", <<>>)
      [] pnu = 8 -> NewParcel(Polyline(<< <<80, 0>>, <<90, 0>>, <<80, 0>> >>),
                              8, "dae", <<>>)
      [] pnu = 9 -> NewParcel(RectCurve(100, 130, 0, 30), 9, "dae",
                              << RectCurve(105, 125, 5, 25) >>)
      [] OTHER -> NewParcel(RectCurve(110, 120, 10, 20), 10, "dae", <<>>)

----------------------------------------------------------------------------
\* Block (units.py)

\* Block._get_out_region: the first region of the list that has every
\* other region of the list inside it.
get_out_region(regions) ==
    IF Len(regions) = 1 THEN Ok(regions[1])
    ELSE LET contains_all(c) ==
                 \A o \in 1..Len(regions) :
                     o = c \/ is_region_inside(regions[o], regions[c])
             candidates == { c \in 1..Len(regions) : contains_all(c) }
         IN IF candidates = {} THEN Raise("ValueError")
            ELSE Ok(regions[SetMin(candidates)])

\* Mutant of NeedsOutRegion: two regions are handled like one.
NeedsOutRegion_notTwo(block_regions) ==
    Len(block_regions) # 1 /\ Len(block_regions) # 2

\* The branch of Block._set_block_region on the number of union regions.
NeedsOutRegion(block_regions) == Len(block_regions) # 1

\* Mutant of SingleCurve: only an empty offset is refused.
SingleCurve_some(block_region) == Len(block_region) >= 1

\* The check of Block._set_block_region on the inward offset.
SingleCurve(block_region) == Len(block_region) = 1

\* lot_regions of Block._set_block_region
LotRegions(lots) ==
    LET all == [n \in 1..Len(lots) |-> lots[n].region]
    IN SelectSeq(all, Truthy)

\* A Block(lots) call that raised e.  No Block object exists; the record
\* keeps, for every call, what the kernel had returned up to that point.
Failed(lots, e, block_regions, out_region, inward) ==
    [err |-> e, lots |-> lots, region |-> NoCurve, is_donut |-> FALSE,
     block_regions |-> block_regions, out_region |-> out_region, inward |-> inward]

\* Block.__init__ and Block._set_block_region up to the selection of the
\* contour (block_region before the inward offset).  The fields lots and
\* is_donut are the Block's; block_regions and out_region record the union
\* and the contour selected from it.
BlockContour(lots, contour, union, clipper) ==
    Bind(offset_regions_outward(LotRegions(lots), RAW_TOL, contour), LAMBDA offset_regions :
    IF offset_regions.err # "" THEN Failed(lots, offset_regions.err, <<>>, NoCurve, <<>>)
    ELSE
    Bind(get_union_regions(offset_regions.val, union, clipper), LAMBDA united :
    IF united.err # "" THEN Failed(lots, united.err, <<>>, NoCurve, <<>>)
    ELSE
    Bind(united.val, LAMBDA block_regions :
    Bind(IF NeedsOutRegion(block_regions) THEN get_out_region(block_regions)
         ELSE Ok(block_regions[1]), LAMBDA out :
    IF out.err # "" THEN Failed(lots, out.err, block_regions, NoCurve, <<>>)
    ELSE [err |-> "", lots |-> lots,
          region |-> NoCurve,
          is_donut |-> NeedsOutRegion(block_regions),
          block_regions |-> block_regions,
          out_region |-> out.val,
          inward |-> <<>>]))))

\* The rest of Block._set_block_region: the inward offset of the contour,
\* the check on it and the assignment of region.  `inward` records the
\* curves the offset returned.
Block(selected, holes) ==
    IF selected.err # "" THEN selected
    ELSE
    Bind(offset_regions_inward(PyCurve(selected.out_region), RAW_TOL, holes), LAMBDA inward :
    IF inward.err # ""
    THEN Failed(selected.lots, inward.err, selected.block_regions, selected.out_region, <<>>)
    ELSE IF inward.val.single
    THEN Failed(selected.lots, "TypeError", selected.block_regions, selected.out_region, <<>>)
    ELSE IF ~SingleCurve(inward.val.items)
    THEN Failed(selected.lots, "ValueError", selected.block_regions, selected.out_region,
                inward.val.items)
    ELSE [selected EXCEPT !.region = inward.val.items[1], !.inward = inward.val.items])

\* The kernel outcomes that can make a difference to the contour of
\* Block(lots): a curve with area always has a contour, a union is computed
\* for two or more regions only, and the Clipper fallback runs only after an
\* empty union, once per further region.
KernelRuns(lots) ==
    LET regions == LotRegions(lots)
        contours == IF \A n \in 1..Len(regions) : HasArea(regions[n])
                    THEN {"grown"} ELSE ContourKinds
        unions == IF Len(regions) < 2 THEN {"one"} ELSE UnionKinds
        clippers(u) == IF u # "nothing" THEN {"merged"}
                       ELSE IF Len(regions) < 3 THEN {"merged", "nothing_at_1"}
                       ELSE ClipperKinds
    IN UNION { { [contour |-> c, union |-> u, clipper |-> x] :
                   c \in contours, x \in clippers(u) } :
               u \in unions }

\* The outcomes of the inward offset that can make a difference: it runs
\* only when a contour was selected.
OffsetRuns(selected) == IF selected.err # "" THEN {"shrunk"} ELSE HolesKinds

----------------------------------------------------------------------------
\* Clustering (geopandas.sjoin and networkx as called by
\* BlockGenerator._create_blocks_from_lots)

\* Mutant of LotMap: the map holds copies made from region, pnu and jimok,
\* without the hole regions.
LotMap_copy(lots) ==
    [p \in { lots[n].pnu : n \in 1..Len(lots) } |->
        LET lot == lots[SetMax({ n \in 1..Len(lots) : lots[n].pnu = p })]
        IN NewParcel(lot.region, lot.pnu, lot.jimok, <<>>)]

\* lot_map = {lot.pnu: lot for lot in lots}: a later lot replaces an earlier
\* one with the same pnu.
LotMap(lots) ==
    [p \in { lots[n].pnu : n \in 1..Len(lots) } |->
        lots[SetMax({ n \in 1..Len(lots) : lots[n].pnu = p })]]

\* gpd.sjoin(gdf, gdf, how="inner", predicate="intersects"): one row for
\* every ordered pair of rows of gdf whose geometries intersect, a row
\* paired with itself included.
SJoin(pnus, geoms) ==
    { [pnu_left |-> pnus[a], pnu_right |-> pnus[b]] :
        <<a, b>> \in { r \in (1..Len(pnus)) \X (1..Len(pnus)) :
                          Intersects(geoms[r[1]], geoms[r[2]]) } }

\* Mutant of DropSelfPairs: the filter is left out.
DropSelfPairs_none(rows) == rows

\* intersecting_gdf[intersecting_gdf.pnu_left != intersecting_gdf.pnu_right]
DropSelfPairs(rows) == { row \in rows : row.pnu_left # row.pnu_right }

\* tuple(sorted((a, b)))
SortedPair(a, b) == IF a <= b THEN <<a, b>> ELSE <<b, a>>

\* The loop over the rows that fills the set `edges`.
EdgesOf(rows) == { SortedPair(row.pnu_left, row.pnu_right) : row \in rows }

\* Mutant of Adj: the graph is read as directed, from the smaller pnu of an
\* edge to the larger.
Adj_forward(v, E) == { e[2] : e \in { f \in E : f[1] = v } }

\* The neighbours of node v in the graph with these edges.
Adj(v, E) == { e[2] : e \in { f \in E : f[1] = v } } \cup
             { e[1] : e \in { f \in E : f[2] = v } }

\* Mutant of PlainBfs: the search stops after the direct neighbours.
PlainBfs_direct(E, seen, frontier) == seen \cup UNION { Adj(v, E) : v \in frontier }

RECURSIVE PlainBfs(_, _, _)
\* networkx _plain_bfs: all nodes reached from the frontier, level by level.
PlainBfs(E, seen, frontier) ==
    IF frontier = {} THEN seen
    ELSE LET next == (UNION { Adj(v, E) : v \in frontier }) \ seen
         IN PlainBfs(E, seen \cup next, next)

RECURSIVE ComponentsFrom(_, _, _)
\* nx.connected_components: for every node in node order that is not seen
\* yet, the set of nodes reached from it.
ComponentsFrom(nodes, E, seen) ==
    IF nodes = <<>> THEN <<>>
    ELSE IF Head(nodes) \in seen THEN ComponentsFrom(Tail(nodes), E, seen)
    ELSE LET c == PlainBfs(E, {Head(nodes)}, {Head(nodes)})
         IN <<c>> \o ComponentsFrom(Tail(nodes), E, seen \cup c)

\* Mutant of ConnectedComponents: the graph has the nodes of its edges only
\* (G.add_nodes_from(pnu_list) left out).
ConnectedComponents_edgesOnly(pnus, E) ==
    LET in_edge(p) == \E e \in E : e[1] = p \/ e[2] = p
    IN ComponentsFrom(SelectSeq(pnus, in_edge), E, {})

\* list(nx.connected_components(G)) for the graph with nodes pnus (in this
\* order) and edges E.
ConnectedComponents(pnus, E) == ComponentsFrom(pnus, E, {})

----------------------------------------------------------------------------
\* BlockGenerator.generate as a state machine

VARIABLES
    parcels,            \* the argument of generate: Lots and Roads
    pc,                 \* the position in generate / _create_blocks_from_lots
    lots,               \* lots_to_process
    idx,                \* the index of the running loop
    geometries,         \* the polygons of the valid lots
    pnu_list,           \* their pnus, in the same order
    intersecting_gdf,   \* the rows of the spatial join
    edges,              \* the edge set of the graph
    clusters,           \* the connected components, in the order found
    blocks,             \* the Blocks built so far
    raised,             \* the Block call that raised, if one did
    outcome,            \* "running", "returned" or "raised"
    returned,           \* the list generate returned
    offset_call         \* a call of utils.offset_regions_inward by itself

vars == <<parcels, pc, lots, idx, geometries, pnu_list, intersecting_gdf, edges,
          clusters, blocks, raised, outcome, returned, offset_call>>

\* No call of offset_regions_inward outside Block is under way.
NoOffsetCall == [pc |-> "none", regions |-> PyList(<<>>), dist |-> 0, kind |-> "shrunk",
                 result |-> PyList(<<>>)]

NoCall == Failed(<<>>, "", <<>>, NoCurve, <<>>)

\* Mutant of IsLot: every parcel is taken.
IsLot_any(p) == TRUE

\* p.__class__.__name__ == "Lot"
IsLot(p) == p.cls = "Lot"

\* The two districts of the sheet a run is made for: the row of lots with
\* the road and the lots east of it, and two lots of the row with the lots
\* of invalid geometry and the courtyard.
Districts == { {1, 2, 3, 4, 5, 6}, {1, 2, 7, 8, 9, 10} }

\* The parcel lists generate is called with: up to MaxParcels parcels of
\* one district, in any order.
Inputs ==
    { [n \in 1..Len(s) |-> Sheet(s[n])] :
        s \in UNION { InjSeqs(d, MaxParcels) : d \in Districts } }

Init ==
    /\ parcels \in Inputs
    /\ pc = "generate"
    /\ lots = <<>>
    /\ idx = 1
    /\ geometries = <<>>
    /\ pnu_list = <<>>
    /\ intersecting_gdf = {}
    /\ edges = {}
    /\ clusters = <<>>
    /\ blocks = <<>>
    /\ raised = NoCall
    /\ outcome = "running"
    /\ returned = <<>>
    /\ offset_call = NoOffsetCall

\* generate and the guard at the head of _create_blocks_from_lots.
Generate ==
    /\ pc = "generate"
    /\ lots' = SelectSeq(parcels, IsLot)
    /\ IF lots' = <<>>
       THEN /\ pc' = "done"
            /\ outcome' = "returned"
       ELSE /\ pc' = "convert"
            /\ outcome' = outcome
    /\ returned' = <<>>
    /\ idx' = 1
    /\ UNCHANGED <<parcels, geometries, pnu_list, intersecting_gdf, edges, clusters,
                   blocks, raised>>
    /\ UNCHANGED offset_call

\* One pass of the loop that converts the lots' curves to polygons.
ConvertLot ==
    /\ pc = "convert"
    /\ idx <= Len(lots)
    /\ LET lot == lots[idx]
           polygon == RhinoCurveToShapelyPolygon(lot.region, lot.hole_regions)
       IN IF PolygonTruthy(polygon)
          THEN /\ geometries' = Append(geometries, polygon)
               /\ pnu_list' = Append(pnu_list, lot.pnu)
          ELSE UNCHANGED <<geometries, pnu_list>>
    /\ idx' = idx + 1
    /\ UNCHANGED <<parcels, pc, lots, intersecting_gdf, edges, clusters, blocks,
                   raised, outcome, returned>>
    /\ UNCHANGED offset_call

\* `if not pnu_list` after the loop.
CheckPnuList ==
    /\ pc = "convert"
    /\ idx > Len(lots)
    /\ pc' = IF pnu_list = <<>> THEN "fallback" ELSE "join"
    /\ idx' = 1
    /\ UNCHANGED <<parcels, lots, geometries, pnu_list, intersecting_gdf, edges,
                   clusters, blocks, raised, outcome, returned>>
    /\ UNCHANGED offset_call

\* One element of `[units.Block(lots=[lot]) for lot in lots]`.
FallbackBlock ==
    /\ pc = "fallback"
    /\ idx <= Len(lots)
    /\ \E k \in KernelRuns(<<lots[idx]>>) :
       \E selected \in { BlockContour(<<lots[idx]>>, k.contour, k.union, k.clipper) } :
       \E holes \in OffsetRuns(selected) :
       \E b \in { Block(selected, holes) } :
            IF b.err = ""
            THEN /\ blocks' = Append(blocks, b)
                 /\ idx' = idx + 1
                 /\ UNCHANGED <<pc, raised, outcome>>
            ELSE /\ raised' = b
                 /\ outcome' = "raised"
                 /\ pc' = "done"
                 /\ UNCHANGED <<blocks, idx>>
    /\ UNCHANGED <<parcels, lots, geometries, pnu_list, intersecting_gdf, edges,
                   clusters, returned>>
    /\ UNCHANGED offset_call

\* The list of the fallback Blocks is returned.
ReturnFallback ==
    /\ pc = "fallback"
    /\ idx > Len(lots)
    /\ returned' = blocks
    /\ outcome' = "returned"
    /\ pc' = "done"
    /\ UNCHANGED <<parcels, lots, idx, geometries, pnu_list, intersecting_gdf, edges,
                   clusters, blocks, raised>>
    /\ UNCHANGED offset_call

\* The spatial join of the valid lots with themselves.
Join ==
    /\ pc = "join"
    /\ intersecting_gdf' = SJoin(pnu_list, geometries)
    /\ pc' = "filter"
    /\ UNCHANGED <<parcels, lots, idx, geometries, pnu_list, edges, clusters, blocks,
                   raised, outcome, returned>>
    /\ UNCHANGED offset_call

\* The rows that pair a lot with itself are dropped.
Filter ==
    /\ pc = "filter"
    /\ intersecting_gdf' = DropSelfPairs(intersecting_gdf)
    /\ pc' = "edges"
    /\ UNCHANGED <<parcels, lots, idx, geometries, pnu_list, edges, clusters, blocks,
                   raised, outcome, returned>>
    /\ UNCHANGED offset_call

\* The edge set is collected from the rows.
CollectEdges ==
    /\ pc = "edges"
    /\ edges' = EdgesOf(intersecting_gdf)
    /\ pc' = "graph"
    /\ UNCHANGED <<parcels, lots, idx, geometries, pnu_list, intersecting_gdf,
                   clusters, blocks, raised, outcome, returned>>
    /\ UNCHANGED offset_call

\* The graph is built and its connected components are listed.
FindClusters ==
    /\ pc = "graph"
    /\ clusters' = ConnectedComponents(pnu_list, edges)
    /\ pc' = "blocks"
    /\ idx' = 1
    /\ UNCHANGED <<parcels, lots, geometries, pnu_list, intersecting_gdf, edges,
                   blocks, raised, outcome, returned>>
    /\ UNCHANGED offset_call

\* One pass of the loop over the clusters: the cluster's lots, in the order
\* the set of pnus happens to be iterated, become a Block.
BuildBlock ==
    /\ pc = "blocks"
    /\ idx <= Len(clusters)
    /\ \E order \in Orderings(clusters[idx]) :
       \E cluster_lots \in { [n \in 1..Len(order) |-> LotMap(lots)[order[n]]] } :
       \E k \in KernelRuns(cluster_lots) :
       \E selected \in { BlockContour(cluster_lots, k.contour, k.union, k.clipper) } :
       \E holes \in OffsetRuns(selected) :
       \E b \in { Block(selected, holes) } :
            IF b.err = ""
            THEN /\ blocks' = Append(blocks, b)
                 /\ idx' = idx + 1
                 /\ UNCHANGED <<pc, raised, outcome>>
            ELSE /\ raised' = b
                 /\ outcome' = "raised"
                 /\ pc' = "done"
                 /\ UNCHANGED <<blocks, idx>>
    /\ UNCHANGED <<parcels, lots, geometries, pnu_list, intersecting_gdf, edges,
                   clusters, returned>>
    /\ UNCHANGED offset_call

\* `return blocks`
ReturnBlocks ==
    /\ pc = "blocks"
    /\ idx > Len(clusters)
    /\ returned' = blocks
    /\ outcome' = "returned"
    /\ pc' = "done"
    /\ UNCHANGED <<parcels, lots, idx, geometries, pnu_list, intersecting_gdf, edges,
                   clusters, blocks, raised>>
    /\ UNCHANGED offset_call

Next ==
    \/ Generate
    \/ ConvertLot
    \/ CheckPnuList
    \/ FallbackBlock
    \/ ReturnFallback
    \/ Join
    \/ Filter
    \/ CollectEdges
    \/ FindClusters
    \/ BuildBlock
    \/ ReturnBlocks

Spec == Init /\ [][Next]_vars

----------------------------------------------------------------------------
\* utils.offset_regions_inward called by itself, and a caller that takes
\* len() of what it returns

MaxCurves == 2

\* The curves the calls are made with: the regions of parcels of the sheet.
OffsetCurves == { Sheet(pnu).region : pnu \in {1, 4, 8, 9} }

\* The `regions` argument: one curve, or a list of up to MaxCurves curves.
OffsetArguments ==
    { PyCurve(c) : c \in OffsetCurves } \cup
    { PyList(cs) : cs \in UNION { [1..n -> OffsetCurves] : n \in 0..MaxCurves } }

\* The `dist` argument: 0, the distance of ParcelEvaluator._get_regions_score
\* (0.5, here one unit) and RAW_TOL.
OffsetDistances == {0, 1, RAW_TOL}

\* No generate is under way.
GenerateIdle ==
    /\ parcels = <<>>
    /\ pc = "done"
    /\ lots = <<>>
    /\ idx = 1
    /\ geometries = <<>>
    /\ pnu_list = <<>>
    /\ intersecting_gdf = {}
    /\ edges = {}
    /\ clusters = <<>>
    /\ blocks = <<>>
    /\ raised = NoCall
    /\ outcome = "returned"
    /\ returned = <<>>

InitOffset ==
    /\ GenerateIdle
    /\ \E regions \in OffsetArguments, dist \in OffsetDistances, kind \in HolesKinds :
          offset_call = [pc |-> "call", regions |-> regions, dist |-> dist,
                         kind |-> kind, result |-> PyList(<<>>)]

\* result = utils.offset_regions_inward(regions, dist)
CallOffsetInward ==
    /\ offset_call.pc = "call"
    /\ \E r \in { offset_regions_inward(offset_call.regions, offset_call.dist,
                                        offset_call.kind) } :
          offset_call' = IF r.err # ""
                         THEN [offset_call EXCEPT !.pc = r.err]
                         ELSE [offset_call EXCEPT !.pc = "returned", !.result = r.val]
    /\ UNCHANGED <<parcels, pc, lots, idx, geometries, pnu_list, intersecting_gdf,
                   edges, clusters, blocks, raised, outcome, returned>>

\* The caller's `if len(result) != 1: raise ValueError(...)` and
\* `result[0]`: len() of a curve that is no list is a TypeError.
UseResult ==
    /\ offset_call.pc = "returned"
    /\ offset_call' =
          [offset_call EXCEPT !.pc =
              IF offset_call.result.single THEN "len_TypeError"
              ELSE IF Len(offset_call.result.items) # 1 THEN "caller_ValueError"
              ELSE "indexed"]
    /\ UNCHANGED <<parcels, pc, lots, idx, geometries, pnu_list, intersecting_gdf,
                   edges, clusters, blocks, raised, outcome, returned>>

NextOffset ==
    \/ CallOffsetInward
    \/ UseResult

SpecOffset == InitOffset /\ [][NextOffset]_vars

----------------------------------------------------------------------------
\* Vocabulary of the properties

\* The Lots of the input, by class.
InputLots == { p \in Range(parcels) : p.cls = "Lot" }

InputRoads == { p \in Range(parcels) : p.cls = "Road" }

\* The polygon of a parcel, NoPolygon when its geometry does not convert.
PolygonOf(p) == RhinoCurveToShapelyPolygon(p.region, p.hole_regions)

ValidLots == { p \in InputLots : PolygonOf(p) # NoPolygon }

InvalidLots == InputLots \ ValidLots

Pnu(S) == { p.pnu : p \in S }

\* The pnus of the member lots of a Block.
Members(b) == { b.lots[n].pnu : n \in 1..Len(b.lots) }

\* Lots a and b (pnus) are members of one returned Block.
SameBlock(a, b) == \E n \in 1..Len(returned) : {a, b} \subseteq Members(returned[n])

Returned == outcome = "returned"

\* The Block calls made so far: those that built a Block and the one that
\* raised.
Calls == Range(blocks) \cup (IF raised.err # "" THEN {raised} ELSE {})

RECURSIVE Closure(_, _)
\* The nodes joined to a node of S by a path of edges of E.
Closure(S, E) ==
    LET T == S \cup { e[2] : e \in { f \in E : f[1] \in S } }
               \cup { e[1] : e \in { f \in E : f[2] \in S } }
    IN IF T = S THEN S ELSE Closure(T, E)

\* The unordered pairs of distinct valid lots whose polygons share a point.
TouchingPairs ==
    { <<p.pnu, q.pnu>> : <<p, q>> \in
        { r \in ValidLots \X ValidLots :
            r[1].pnu < r[2].pnu /\ Intersects(PolygonOf(r[1]), PolygonOf(r[2])) } }

\* The squared distance between two parcels' polygons (boxes).
Gap2(p, q) ==
    LET a == BBox(PolygonOf(p).shell)
        b == BBox(PolygonOf(q).shell)
        dx == SetMax({0, b.x1 - a.x2, a.x1 - b.x2})
        dy == SetMax({0, b.y1 - a.y2, a.y1 - b.y2})
    IN dx * dx + dy * dy

EdgesBuilt == pc \in {"graph", "blocks"}

----------------------------------------------------------------------------
\* C1: when generate returns for an input with unique pnus, the member pnu
\* sets of the returned Blocks together are exactly the pnus of the input
\* lots with a valid polygon, no pnu is a member twice (in two Blocks or
\* twice in one), and no Block is without members.  The code does not keep
\* this when no lot has a valid polygon.
C1_Partition ==
    Returned =>
        /\ UNION { Members(returned[n]) : n \in 1..Len(returned) } = Pnu(ValidLots)
        /\ \A n \in 1..Len(returned) :
              /\ returned[n].lots # <<>>
              /\ Cardinality(Members(returned[n])) = Len(returned[n].lots)
              /\ \A m \in 1..Len(returned) :
                    m # n => Members(returned[m]) \cap Members(returned[n]) = {}

\* C2: once the edge set is built it holds the pair (a, b), a < b, exactly
\* for the distinct valid lots a and b whose polygons intersect or touch:
\* no pair (a, a), and one edge for a pair the join found in both orders.
C2_EdgeSet == EdgesBuilt => edges = TouchingPairs

\* Lots that touch were joined in both orders and the self pairs were met.
C2_Witness ==
    /\ pc = "graph"
    /\ edges # {}
    /\ \E a \in Pnu(ValidLots), b \in Pnu(ValidLots) : a < b /\ <<a, b>> \notin edges

\* C3: when generate returns, two valid lots (or one: a lot is joined to
\* itself) are members of one returned Block exactly when a path of edges
\* joins them.
C3_Components ==
    Returned =>
        \A a \in Pnu(ValidLots), b \in Pnu(ValidLots) :
            SameBlock(a, b) <=> b \in Closure({a}, edges)

\* Three lots in a row: the outer two are joined through the middle one only.
C3_Witness ==
    /\ Returned
    /\ \E a \in Pnu(ValidLots), b \in Pnu(ValidLots) :
          /\ a < b /\ SameBlock(a, b)
          /\ <<a, b>> \notin edges

\* C4: every Block that was built has is_donut true exactly when its union
\* gave more than one region; with one region the Block's region is the
\* inward offset of that region, with more it is the inward offset of the
\* region that holds the others.
C4_Donut ==
    \A b \in Range(blocks) :
        /\ b.is_donut <=> Len(b.block_regions) > 1
        /\ Len(b.block_regions) >= 1
        /\ Len(b.block_regions) = 1 => b.out_region = b.block_regions[1]
        /\ BoxStrictlyInside(CurveBox(b.region), CurveBox(b.out_region))

\* A donut Block and a Block that is none, returned together.
C4_Witness ==
    /\ Returned
    /\ \E n \in 1..Len(returned) :
          returned[n].is_donut /\ Len(returned[n].block_regions) = 3
    /\ \E n \in 1..Len(returned) : ~returned[n].is_donut

\* C5: for a union of several regions, a Block is built only from a region
\* that has every other region of the union fully inside it, and the call
\* raises when the union has no such region.
C5_OutRegion ==
    \A c \in Calls :
        Len(c.block_regions) > 1 =>
            LET holders == { r \in Range(c.block_regions) :
                               \A o \in Range(c.block_regions) :
                                   o = r \/ BoxStrictlyInside(CurveBox(o), CurveBox(r)) }
            IN /\ c.err = "" => c.out_region \in holders
               /\ holders = {} => c.err = "ValueError" /\ c.region = NoCurve

\* After a Block was built, a call raised on a union of two regions of
\* which neither holds the other.
C5_Witness ==
    /\ raised.err = "ValueError"
    /\ Len(raised.block_regions) = 2
    /\ raised.out_region = NoCurve
    /\ blocks # <<>>

\* C6: a Block that was built has the one curve of its inward offset as
\* region, and a call whose inward offset gave no curve or several raised.
C6_SingleOffset ==
    \A c \in Calls :
        /\ c.err = "" => Len(c.inward) = 1 /\ c.region = c.inward[1] /\ c.region # NoCurve
        /\ (c.out_region # NoCurve /\ Len(c.inward) # 1) =>
              c.err = "ValueError" /\ c.region = NoCurve

\* A call raised on an inward offset of two curves after a Block was built
\* from an offset of one.
C6_Witness ==
    /\ Len(raised.inward) = 2
    /\ raised.err = "ValueError"
    /\ \E b \in Range(blocks) : b.region = b.inward[1]

\* C7: when the construction of one cluster's Block fails on its union (no
\* region holds the others) or on its inward offset (not one curve) and the
\* input has other clusters, generate still returns, and what it returns
\* holds a Block for every other cluster.  The code lets the error end
\* generate.
C7_OthersReturned ==
    (/\ pc = "done"
     /\ raised.err \in {"ValueError"}
     /\ raised.block_regions # <<>>
     /\ \E n \in 1..Len(clusters) : clusters[n] # Members(raised)) =>
        /\ Returned
        /\ \A n \in 1..Len(clusters) :
              clusters[n] # Members(raised) =>
                  \E m \in 1..Len(returned) : Members(returned[m]) = clusters[n]

\* C8: a lot without a valid polygon is no node of the graph and no member
\* of a returned Block, and generate does not end in an error raised for
\* it.  The code builds a Block of each such lot when no lot of the input
\* is valid.
C8_InvalidDropped ==
    \A p \in InvalidLots :
        /\ \A n \in 1..Len(pnu_list) : pnu_list[n] # p.pnu
        /\ \A n \in 1..Len(returned) : p.pnu \notin Members(returned[n])
        /\ p.pnu \notin Members(raised)

\* C9: of two valid lots that are the only lots of the input, a gap below
\* RAW_TOL puts them into one Block and a gap above RAW_TOL into two.  The
\* code joins lots only when their polygons share a point.
C9_Tolerance ==
    Returned =>
        \A p \in ValidLots, q \in ValidLots :
            (p.pnu # q.pnu /\ InputLots = {p, q}) =>
                /\ Gap2(p, q) < RAW_TOL * RAW_TOL => SameBlock(p.pnu, q.pnu)
                /\ Gap2(p, q) > RAW_TOL * RAW_TOL => ~SameBlock(p.pnu, q.pnu)

\* C10: no Road is a lot to process, a graph node or a member of a Block,
\* and when generate returns, two lots of one Block are joined by a path of
\* touching valid lots: a road between them joins nothing.
C10_LotsOnly ==
    /\ \A n \in 1..Len(lots) : lots[n].cls = "Lot"
    /\ Range(pnu_list) \cap Pnu(InputRoads) = {}
    /\ \A c \in Calls : Members(c) \cap Pnu(InputRoads) = {}
    /\ Returned =>
          \A a \in Pnu(ValidLots), b \in Pnu(ValidLots) :
              SameBlock(a, b) => b \in Closure({a}, TouchingPairs)

\* Two lots that touch the same road and not each other, returned in two
\* Blocks.
C10_Witness ==
    /\ Returned
    /\ \E r \in InputRoads : \E p \in ValidLots, q \in ValidLots :
          /\ p.pnu # q.pnu
          /\ BoxesMeet(CurveBox(p.region), CurveBox(r.region))
          /\ BoxesMeet(CurveBox(q.region), CurveBox(r.region))
          /\ ~SameBlock(p.pnu, q.pnu)
          /\ SameBlock(p.pnu, p.pnu)
          /\ SameBlock(q.pnu, q.pnu)

\* C11: when generate returns the Blocks of the clusters, the member pnus
\* of every returned Block are in ascending order and the Blocks are in the
\* order of their smallest member pnu.  The code keeps the order in which networkx lists the
\* components and in which the set of a component is iterated.
C11_SortedOrder ==
    (Returned /\ pnu_list # <<>>) =>
        /\ \A n \in 1..Len(returned) :
              \A i \in 1..Len(returned[n].lots), j \in 1..Len(returned[n].lots) :
                  i < j => returned[n].lots[i].pnu < returned[n].lots[j].pnu
        /\ \A n \in 1..Len(returned), m \in 1..Len(returned) :
              (n < m /\ returned[n].lots # <<>> /\ returned[m].lots # <<>>) =>
                  SetMin(Members(returned[n])) < SetMin(Members(returned[m]))

----------------------------------------------------------------------------
\* The clusters of an input as a function of the parcel list

\* The lots of a list whose geometry converts to a polygon (the loop that
\* fills geometries and pnu_list).
ConvertedLots(ls) ==
    LET converts(lot) ==
            PolygonTruthy(RhinoCurveToShapelyPolygon(lot.region, lot.hole_regions))
    IN SelectSeq(ls, converts)

\* The member pnu sets of the Blocks generate builds for the parcel list ps:
\* none without lots, one per lot when no lot converts, and else the
\* connected components of the graph of the join.
ClusterSets(ps) ==
    LET ls == SelectSeq(ps, IsLot)
        valid == ConvertedLots(ls)
        pnus == [n \in 1..Len(valid) |-> valid[n].pnu]
        geoms == [n \in 1..Len(valid) |->
                     RhinoCurveToShapelyPolygon(valid[n].region, valid[n].hole_regions)]
    IN IF ls = <<>> THEN {}
       ELSE IF pnus = <<>> THEN { {ls[n].pnu} : n \in 1..Len(ls) }
       ELSE Range(ConnectedComponents(pnus, EdgesOf(DropSelfPairs(SJoin(pnus, geoms)))))

\* The lists that hold the elements of ps in another order.
Reorderings(ps) ==
    { [n \in 1..Len(ps) |-> ps[o[n]]] : o \in Orderings(1..Len(ps)) }

\* C12: the member pnu sets of the Blocks generate returns are those of the
\* clusters of its input, and the clusters of every reordering of an input
\* are the clusters of the input.
C12_OrderFree ==
    /\ Returned => { Members(returned[n]) : n \in 1..Len(returned) } = ClusterSets(parcels)
    /\ pc = "generate" =>
          \A qs \in Reorderings(parcels) : ClusterSets(qs) = ClusterSets(parcels)

\* Three lots given in descending order of pnu, returned in two Blocks.
C12_Witness ==
    /\ Returned
    /\ Len(parcels) = 3
    /\ parcels[1].pnu > parcels[2].pnu /\ parcels[2].pnu > parcels[3].pnu
    /\ Len(returned) = 2
    /\ \E n \in 1..Len(returned) : Cardinality(Members(returned[n])) = 2

\* The valid lots whose polygon shares no point with another valid lot's.
IsolatedLots ==
    { p \in ValidLots : \A e \in TouchingPairs : e[1] # p.pnu /\ e[2] # p.pnu }

\* C13: when generate returns, every valid lot that intersects no other lot
\* is the only member of exactly one returned Block, whose is_donut is
\* false; and when no two valid lots intersect, the Blocks are as many as
\* the valid lots and each has one member.
C13_Isolated ==
    Returned =>
        /\ \A p \in IsolatedLots :
              \E n \in 1..Len(returned) :
                  /\ returned[n].lots = <<p>>
                  /\ ~returned[n].is_donut
                  /\ \A m \in 1..Len(returned) :
                        m # n => p.pnu \notin Members(returned[m])
        /\ (ValidLots # {} /\ IsolatedLots = ValidLots) =>
              /\ Len(returned) = Cardinality(ValidLots)
              /\ \A n \in 1..Len(returned) : Len(returned[n].lots) = 1

\* Three valid lots of which no two touch, returned as three Blocks.
C13_Witness ==
    /\ Returned
    /\ Cardinality(ValidLots) = 3
    /\ IsolatedLots = ValidLots
    /\ Len(returned) = 3
    /\ \A n \in 1..Len(returned) : ~returned[n].is_donut

\* C14: for an input without a Lot (the empty list, or Roads only) the one
\* step of generate returns the empty list: no lot is converted, no Block
\* call is made and nothing is raised.
C14_NoLots ==
    (InputLots = {} /\ pc # "generate") =>
        /\ pc = "done"
        /\ Returned
        /\ returned = <<>>
        /\ blocks = <<>>
        /\ raised = NoCall

\* generate has returned for an input that holds a Road and no Lot.
C14_Witness ==
    /\ pc = "done"
    /\ InputLots = {}
    /\ InputRoads # {}
    /\ Returned
    /\ returned = <<>>

\* C15: in every state of generate the parcels of the input have the fields
\* they were constructed with, and every member of a Block that was built,
\* or of the Block call that raised, is a Lot of the input with all its
\* fields as constructed, both flags false.
C15_LotsUntouched ==
    /\ \A n \in 1..Len(parcels) : parcels[n] = Sheet(parcels[n].pnu)
    /\ \A c \in Calls \cup Range(returned) :
          \A n \in 1..Len(c.lots) :
              /\ c.lots[n] \in InputLots
              /\ c.lots[n] = Sheet(c.lots[n].pnu)
              /\ ~c.lots[n].is_flag_lot
              /\ ~c.lots[n].has_road_access

\* A Block of two lots and a Block of the lot with the courtyard, returned
\* together.
C15_Witness ==
    /\ Returned
    /\ \E n \in 1..Len(returned) : Len(returned[n].lots) = 2
    /\ \E n \in 1..Len(returned) :
          Len(returned[n].lots) = 1 /\ returned[n].lots[1].hole_regions # <<>>

\* C16: what offset_regions_inward returns is a list of curves, for one
\* curve and for a list and for every distance, 0 included, so that the
\* caller's len() of it is defined.  The code returns its argument as it is
\* when the distance is 0.
C16_ReturnsList ==
    /\ offset_call.pc \in {"returned", "indexed", "caller_ValueError"} =>
          ~offset_call.result.single
    /\ offset_call.pc # "len_TypeError"

====
